---- MODULE Spec2Model ----
(***************************************************************************)
(* Model of the route planner of KitchenTreasure (src/logic/route_logic.py)*)
(* : the visit scheduler generate_route_plan, the tour sequencer           *)
(* optimize_daily_route and the two entry points process_route and         *)
(* get_day_summary that src/main.py serves.                                *)
(*                                                                         *)
(* Strings are tuples of one-character strings, so that strip, slicing,    *)
(* upper-casing, the digit search of parse_freq and the lexicographic      *)
(* comparison of sort_values are computed and not assumed.                 *)
(***************************************************************************)
EXTENDS Integers, Sequences, FiniteSets, TLC

(***************************************************************************)
(* Bounds of the model (not program constants).                            *)
(***************************************************************************)
\* longest input of the exhaustively enumerated short inputs
MaxOutlets == 3
\* rows a long periodic input holds beyond PER_DAY_CAPACITY * |DAYS|
Extra == 2
\* generate_route_plan calls that run side by side
MaxRuns == 2

(***************************************************************************)
(* CONFIGURATION, route_logic.py lines 19-21.                              *)
(***************************************************************************)
PER_DAY_CAPACITY == 45

MON == <<"M", "O", "N">>
TUE == <<"T", "U", "E">>
WED == <<"W", "E", "D">>
THU == <<"T", "H", "U">>
FRI == <<"F", "R", "I">>
SAT == <<"S", "A", "T">>

DAYS == <<MON, TUE, WED, THU, FRI, SAT>>

WEEKS == <<1, 2, 3, 4>>

DaySet == {DAYS[i] : i \in 1..Len(DAYS)}

WeekSet == {WEEKS[i] : i \in 1..Len(WEEKS)}

(***************************************************************************)
(* Values of the Python runtime.                                           *)
(***************************************************************************)
\* float('nan') / a missing cell, what pd.isna is true of; every other cell
\* is the tuple of the characters of str(cell)
NaN == <<"NaN">>

\* Python's None, where the code returns None or a non-empty list or frame
None == <<>>

\* the characters of the model, in code-point order
Digits == <<"0", "1", "2", "3", "4", "5", "6", "7", "8", "9">>

UpperCase == <<"A", "B", "C", "D", "E", "F", "G", "H", "I", "J", "K", "L", "M",
               "N", "O", "P", "Q", "R", "S", "T", "U", "V", "W", "X", "Y", "Z">>

LowerCase == <<"a", "b", "c", "d", "e", "f", "g", "h", "i", "j", "k", "l", "m",
               "n", "o", "p", "q", "r", "s", "t", "u", "v", "w", "x", "y", "z">>

Alphabet == <<" ", "-", ".">> \o Digits \o UpperCase \o LowerCase

\* ord(c), up to an order-preserving renumbering
Ord(c) == CHOOSE i \in 1..Len(Alphabet) : Alphabet[i] = c

IsDigit(c) == \E i \in 1..Len(Digits) : Digits[i] = c

DigitVal(c) == (CHOOSE i \in 1..Len(Digits) : Digits[i] = c) - 1

IsSpace(c) == c = " "

\* str.upper on one character
UpperChar(c) ==
  IF \E i \in 1..Len(LowerCase) : LowerCase[i] = c
  THEN UpperCase[CHOOSE i \in 1..Len(LowerCase) : LowerCase[i] = c]
  ELSE c

\* str.upper
Upper(s) == [i \in 1..Len(s) |-> UpperChar(s[i])]

\* str.strip
Strip(s) ==
  LET keep == {i \in 1..Len(s) : ~IsSpace(s[i])}
  IN IF keep = {} THEN <<>>
     ELSE LET lo == CHOOSE i \in keep : \A j \in keep : i <= j
              hi == CHOOSE i \in keep : \A j \in keep : j <= i
          IN SubSeq(s, lo, hi)

\* s[:n]
Prefix(s, n) == SubSeq(s, 1, IF Len(s) < n THEN Len(s) ELSE n)

\* int(m) of a run of decimal digits
RECURSIVE DecVal(_)
DecVal(m) ==
  IF m = <<>> THEN 0
  ELSE 10 * DecVal(SubSeq(m, 1, Len(m) - 1)) + DigitVal(m[Len(m)])

\* re.search(r'(\d+)', s).group(1): the first maximal run of digits, <<>> if none
FirstDigitRun(s) ==
  LET digs == {i \in 1..Len(s) : IsDigit(s[i])}
  IN IF digs = {} THEN <<>>
     ELSE LET lo == CHOOSE i \in digs : \A j \in digs : i <= j
              hi == CHOOSE i \in lo..Len(s) :
                      /\ \A j \in lo..i : IsDigit(s[j])
                      /\ (i = Len(s) \/ ~IsDigit(s[i + 1]))
          IN SubSeq(s, lo, hi)

(***************************************************************************)
(* HELPERS, route_logic.py lines 51-73.  val is NaN or str(val).           *)
(***************************************************************************)
parse_freq(val) ==
  IF val = NaN THEN 1
  ELSE LET m == FirstDigitRun(val)
       IN IF m # <<>> THEN DecVal(m)
          ELSE 1  \* int(s) of a string without a digit raises: except -> 1

\* pick_weeks with the weeks of frequency 3 taken for the first three
pick_weeks_first_three(freq) ==
  IF freq = 1 THEN None
  ELSE IF freq = 2 THEN <<1, 3>>
  ELSE IF freq = 3 THEN <<1, 2, 3>>
  ELSE <<1, 2, 3, 4>>

pick_weeks(freq) ==
  IF freq = 1 THEN None
  ELSE IF freq = 2 THEN <<1, 3>>
  ELSE IF freq = 3 THEN <<1, 2, 4>>
  ELSE <<1, 2, 3, 4>>

\* MinKey, were min() to return the first key whatever the values
FirstKey(keys, f) == keys[1]

\* min(d, key=d.get) of a dict with keys in insertion order keys: the first
\* key of minimal value
MinKey(keys, f) ==
  keys[CHOOSE i \in 1..Len(keys) :
         /\ \A j \in 1..Len(keys) : f[keys[i]] <= f[keys[j]]
         /\ \A j \in 1..(i - 1) : f[keys[j]] > f[keys[i]]]

(***************************************************************************)
(* ROUTE GENERATION, route_logic.py lines 79-146.                          *)
(* so_day_count is the defaultdict(int) keyed by (so_name, wk, d), for the *)
(* one so_name of the call; week_load the dict over WEEKS.                 *)
(***************************************************************************)
\* lines 93-96: the counters and records of a fresh call
EmptyDayCount == [b \in WeekSet \X DaySet |-> 0]

EmptyWeekLoad == [w \in WeekSet |-> 0]

\* line 111: isinstance(preferred, str) and preferred.strip()
HasPreferred(preferred) == preferred # NaN /\ Strip(preferred) # <<>>

\* ChooseDay with the fallback of line 114 taken for an outlet without a
\* preferred day too, in place of the least-loaded day
ChooseDayByWeek(preferred, wk, sdc) ==
  IF HasPreferred(preferred) /\ Upper(Prefix(Strip(preferred), 3)) \in DaySet
  THEN Upper(Prefix(Strip(preferred), 3))
  ELSE DAYS[((wk - 1) % Len(DAYS)) + 1]

\* ChooseDay with wk for wk - 1 in the fallback of line 114
ChooseDayFallbackOffByOne(preferred, wk, sdc) ==
  IF HasPreferred(preferred)
  THEN LET day == Upper(Prefix(Strip(preferred), 3))
       IN IF day \notin DaySet
          THEN DAYS[(wk % Len(DAYS)) + 1]
          ELSE day
  ELSE LET day_counts == [d \in DaySet |-> sdc[<<wk, d>>]]
       IN MinKey(DAYS, day_counts)

\* lines 111-117: the day chosen before the capacity check
ChooseDay(preferred, wk, sdc) ==
  IF HasPreferred(preferred)
  THEN LET day == Upper(Prefix(Strip(preferred), 3))
       IN IF day \notin DaySet
          THEN DAYS[((wk - 1) % Len(DAYS)) + 1]
          ELSE day
  ELSE LET day_counts == [d \in DaySet |-> sdc[<<wk, d>>]]
       IN MinKey(DAYS, day_counts)

\* CapacityRedirect with > for >= in line 119
CapacityRedirectOffByOne(day, wk, sdc) ==
  IF sdc[<<wk, day>>] > PER_DAY_CAPACITY
  THEN IF \E i \in 1..Len(DAYS) : sdc[<<wk, DAYS[i]>>] < PER_DAY_CAPACITY
       THEN DAYS[CHOOSE i \in 1..Len(DAYS) :
                   /\ sdc[<<wk, DAYS[i]>>] < PER_DAY_CAPACITY
                   /\ \A j \in 1..(i - 1) : sdc[<<wk, DAYS[j]>>] >= PER_DAY_CAPACITY]
       ELSE day
  ELSE day

\* CapacityRedirect with the scan ending on the first day when no day is
\* below capacity
CapacityRedirectToFirst(day, wk, sdc) ==
  IF sdc[<<wk, day>>] >= PER_DAY_CAPACITY
  THEN IF \E i \in 1..Len(DAYS) : sdc[<<wk, DAYS[i]>>] < PER_DAY_CAPACITY
       THEN DAYS[CHOOSE i \in 1..Len(DAYS) :
                   /\ sdc[<<wk, DAYS[i]>>] < PER_DAY_CAPACITY
                   /\ \A j \in 1..(i - 1) : sdc[<<wk, DAYS[j]>>] >= PER_DAY_CAPACITY]
       ELSE DAYS[1]
  ELSE day

\* lines 119-123: the capacity check and the redirect scan
CapacityRedirect(day, wk, sdc) ==
  IF sdc[<<wk, day>>] >= PER_DAY_CAPACITY
  THEN IF \E i \in 1..Len(DAYS) : sdc[<<wk, DAYS[i]>>] < PER_DAY_CAPACITY
       THEN DAYS[CHOOSE i \in 1..Len(DAYS) :
                   /\ sdc[<<wk, DAYS[i]>>] < PER_DAY_CAPACITY
                   /\ \A j \in 1..(i - 1) : sdc[<<wk, DAYS[j]>>] >= PER_DAY_CAPACITY]
       ELSE day
  ELSE day

\* VisitOrderOf with the counter read before the increment of line 125
VisitOrderBeforeIncrement(sdc, wk, day) == sdc[<<wk, day>>] - 1

\* line 141: the VISIT_ORDER of the row, read after the increment of line 125
VisitOrderOf(sdc, wk, day) == sdc[<<wk, day>>]

\* AssignWeek, were the visit dropped when every day of the week is full
AssignWeekDropOverflow(st, row, wk) ==
  IF \A d \in DaySet : st.so_day_count[<<wk, d>>] >= PER_DAY_CAPACITY
  THEN st
  ELSE LET day == CapacityRedirect(ChooseDay(row.Preferred_DAY, wk, st.so_day_count),
                                   wk, st.so_day_count)
           sdc == [st.so_day_count EXCEPT ![<<wk, day>>] = @ + 1]
       IN [so_day_count |-> sdc,
           week_load    |-> [st.week_load EXCEPT ![wk] = @ + 1],
           records      |-> Append(st.records,
                              [Outlet_Erp_Id |-> row.Outlet_Erp_Id,
                               Latitude      |-> row.Latitude,
                               Longitude     |-> row.Longitude,
                               WEEK          |-> wk,
                               DAY           |-> day,
                               VISIT_ORDER   |-> VisitOrderOf(sdc, wk, day)])]

\* lines 110-142: one pass of the loop over weeks_assigned; st holds the
\* counters and the records of the call
AssignWeek(st, row, wk) ==
  LET day == CapacityRedirect(ChooseDay(row.Preferred_DAY, wk, st.so_day_count),
                              wk, st.so_day_count)
      sdc == [st.so_day_count EXCEPT ![<<wk, day>>] = @ + 1]
      wl  == [st.week_load EXCEPT ![wk] = @ + 1]
  IN [so_day_count |-> sdc,
      week_load    |-> wl,
      records      |-> Append(st.records,
                         [Outlet_Erp_Id |-> row.Outlet_Erp_Id,
                          Latitude      |-> row.Latitude,
                          Longitude     |-> row.Longitude,
                          WEEK          |-> wk,
                          DAY           |-> day,
                          VISIT_ORDER   |-> VisitOrderOf(sdc, wk, day)])]

RECURSIVE AssignWeeks(_, _, _)
AssignWeeks(st, row, weeks) ==
  IF weeks = <<>> THEN st
  ELSE AssignWeeks(AssignWeek(st, row, Head(weeks)), row, Tail(weeks))

\* WeeksAssigned with the first week taken for an outlet of frequency 1,
\* whatever the load
WeeksAssignedFirstWeek(freq, wl) ==
  LET weeks_assigned == pick_weeks(freq)
  IN IF weeks_assigned = None
     THEN <<WEEKS[1]>>
     ELSE weeks_assigned

\* lines 105-108: the weeks of an outlet of frequency freq
WeeksAssigned(freq, wl) ==
  LET weeks_assigned == pick_weeks(freq)
  IN IF weeks_assigned = None
     THEN <<MinKey(WEEKS, wl)>>
     ELSE weeks_assigned

\* lines 98-142: the body of the loop over the rows
AssignRow(st, row) ==
  AssignWeeks(st, row, WeeksAssigned(parse_freq(row.Frequency), st.week_load))

\* lines 93-142: the counters and the records of a call that runs alone, once
\* the loop of line 98 has processed the first n rows of df
RECURSIVE generate_route_plan(_, _)
generate_route_plan(df, n) ==
  IF n = 0
  THEN [so_day_count |-> EmptyDayCount, week_load |-> EmptyWeekLoad, records |-> <<>>]
  ELSE AssignRow(generate_route_plan(df, n - 1), df[n])

(***************************************************************************)
(* Inputs: the rows of the uploaded sheet that the filter of lines 84-87   *)
(* keeps for the officer, in sheet order.                                  *)
(***************************************************************************)
\* the cells (Frequency, Preferred_DAY) of the rows of the short inputs
SchedKinds ==
  << <<NaN, NaN>>,
     <<<<"2", "W">>, <<" ", "m", "o", "n">>>>,
     <<<<"3">>, <<"X", "Y", "Z">>>>,
     <<<<"1", "2">>, <<" ">>>>,
     <<<<"x">>, <<"S", "a", "t", "u", "r", "d", "a", "y">>>>,
     <<<<"0">>, <<" ", " ">>>> >>

\* the cells (Latitude, Longitude) of four distinct places
Places ==
  << <<<<"1">>, <<"1">>>>, <<<<"1">>, <<"2">>>>,
     <<<<"2">>, <<"1">>>>, <<<<"2">>, <<"2">>>> >>

\* the cells (Latitude, Longitude) of the rows of the inputs that vary the
\* coordinates: three places, a missing latitude, a missing longitude
GeoKinds ==
  << Places[1], Places[2], Places[3], <<NaN, <<"1">>>>, <<<<"1">>, NaN>> >>

InputRow(id, freq, pref, geo) ==
  [Outlet_Erp_Id |-> id, Frequency |-> freq, Preferred_DAY |-> pref,
   Latitude |-> geo[1], Longitude |-> geo[2]]

PlaceOf(i) == Places[((i - 1) % Len(Places)) + 1]

\* short inputs that vary frequency and preferred day, the empty one included
SchedInputs ==
  UNION {{[i \in 1..n |-> InputRow(i, SchedKinds[k[i]][1], SchedKinds[k[i]][2], PlaceOf(i))] :
            k \in [1..n -> 1..Len(SchedKinds)]} : n \in 0..MaxOutlets}

\* short inputs of outlets that share their weeks and day and vary in coordinates
GeoInputs ==
  UNION {{[i \in 1..n |-> InputRow(i, <<"2", "W">>, MON, GeoKinds[k[i]])] :
            k \in [1..n -> 1..Len(GeoKinds)]} : n \in 1..MaxOutlets}

\* the preferred days a long input repeats, row after row
LongPatterns ==
  << <<NaN>>, <<MON>>, <<<<"s", "a", "t">>>>, <<<<"X", "Y", "Z">>>>,
     <<NaN, SAT>>, <<TUE, NaN>> >>

LongLen == PER_DAY_CAPACITY * Len(DAYS) + Extra

\* long inputs of outlets of frequency 4 that fill every day of every week
LongInputs ==
  {[i \in 1..LongLen |->
      InputRow(i, <<"4">>, LongPatterns[p][((i - 1) % Len(LongPatterns[p])) + 1], PlaceOf(i))] :
     p \in 1..Len(LongPatterns)}

\* PER_DAY_CAPACITY + 1 outlets of frequency 1 without a preferred day
OverCapacityInput ==
  [i \in 1..(PER_DAY_CAPACITY + 1) |-> InputRow(i, <<"1">>, NaN, PlaceOf(i))]

Inputs == SchedInputs \cup GeoInputs \cup LongInputs \cup {OverCapacityInput}

\* the inputs of the calls that run side by side: two outlets of frequency
\* 1, 2 or 3
RunInputs ==
  {df \in SchedInputs :
     /\ Len(df) = 2
     /\ \A i \in 1..2 : df[i].Frequency \in {NaN, <<"2", "W">>, <<"3">>}}

(***************************************************************************)
(* The Distance Oracle: osmnx / networkx, external to the repository.  An  *)
(* oracle is the outcome of ox.graph_from_point (graph_ok), of             *)
(* ox.distance.nearest_nodes on each place (near, near_fails) and of       *)
(* nx.shortest_path_length on each ordered pair of nodes (dist in metres,  *)
(* nopath: the pairs it raises NetworkXNoPath for).                        *)
(***************************************************************************)
Nodes == 1..Len(Places)

PlaceIndex(lat, lon) == CHOOSE i \in 1..Len(Places) : Places[i] = <<lat, lon>>

\* every place has a node of its own
NearDistinct == [i \in 1..Len(Places) |-> i]

\* the first two places share a node, and so do the last two
NearPairs == [i \in 1..Len(Places) |-> IF i <= 2 THEN 1 ELSE 3]

\* the second and third place share a node
NearMiddle == [i \in 1..Len(Places) |-> IF i = 3 THEN 2 ELSE i]

\* every place resolves to the same node
NearOne == [i \in 1..Len(Places) |-> 1]

\* nodes on a line, 1000 m apart: distances tie
DistLine == [e \in Nodes \X Nodes |->
               1000 * (IF e[1] < e[2] THEN e[2] - e[1] ELSE e[1] - e[2])]

\* a one-way network: pairwise distinct distances
DistSkew == [e \in Nodes \X Nodes |->
               IF e[1] = e[2] THEN 0 ELSE 1000 * (e[1] + Len(Places) * e[2])]

Oracle(ok, near, fails, dist, nopath) ==
  [graph_ok |-> ok, near |-> near, near_fails |-> fails, dist |-> dist,
   nopath |-> nopath]

Oracles ==
  { Oracle(TRUE, NearDistinct, {}, DistLine, {}),
    Oracle(TRUE, NearDistinct, {}, DistSkew, {}),
    Oracle(TRUE, NearPairs, {}, DistLine, {}),
    Oracle(TRUE, NearMiddle, {}, DistSkew, {}),
    Oracle(TRUE, NearOne, {}, DistLine, {}),
    Oracle(TRUE, NearDistinct, {}, DistLine, {<<1, 2>>, <<2, 1>>}),
    Oracle(TRUE, NearDistinct, {}, DistSkew, {<<3, 2>>}),
    Oracle(TRUE, NearPairs, {}, DistSkew, {<<1, 3>>}),
    Oracle(TRUE, NearDistinct, {2}, DistLine, {}),
    Oracle(FALSE, NearDistinct, {}, DistLine, {}) }

(***************************************************************************)
(* Frames.                                                                 *)
(***************************************************************************)
\* df[(df['WEEK'] == week) & (df['DAY'] == day)], lines 250 and 300
SliceOf(rows, week, day) ==
  SelectSeq(rows, LAMBDA r : r.WEEK = week /\ r.DAY = day)

\* df.reset_index(drop=True); df['VISIT_ORDER'] = df.index + 1
Renumber(rows) == [i \in 1..Len(rows) |-> [rows[i] EXCEPT !.VISIT_ORDER = i]]

\* s < t for two str cells, by code point
RECURSIVE StrLess(_, _)
StrLess(s, t) ==
  IF t = <<>> THEN FALSE
  ELSE IF s = <<>> THEN TRUE
  ELSE IF s[1] = t[1] THEN StrLess(Tail(s), Tail(t))
  ELSE Ord(s[1]) < Ord(t[1])

\* the numbers of a finite set in ascending order
RECURSIVE AscendingInts(_)
AscendingInts(S) ==
  IF S = {} THEN <<>>
  ELSE LET m == CHOOSE x \in S : \A y \in S : x <= y
       IN <<m>> \o AscendingInts(S \ {m})

\* the str cells of a finite set in ascending order
RECURSIVE AscendingStrs(_)
AscendingStrs(S) ==
  IF S = {} THEN <<>>
  ELSE LET m == CHOOSE x \in S : \A y \in S \ {x} : StrLess(x, y)
       IN <<m>> \o AscendingStrs(S \ {m})

\* rows in ascending VISIT_ORDER, by insertion
RECURSIVE ByVisitOrder(_)
ByVisitOrder(rows) ==
  IF rows = <<>> THEN <<>>
  ELSE LET r == rows[Len(rows)]
           sorted == ByVisitOrder(SubSeq(rows, 1, Len(rows) - 1))
       IN SelectSeq(sorted, LAMBDA x : x.VISIT_ORDER <= r.VISIT_ORDER)
          \o <<r>> \o
          SelectSeq(sorted, LAMBDA x : x.VISIT_ORDER > r.VISIT_ORDER)

RECURSIVE Flatten(_)
Flatten(ss) == IF ss = <<>> THEN <<>> ELSE Head(ss) \o Flatten(Tail(ss))

\* df.sort_values(by=["WEEK", "DAY", "VISIT_ORDER"], ascending=True), line 266:
\* WEEK as a number, DAY as a str, VISIT_ORDER as a number
SortValues(rows) ==
  LET weeks == AscendingInts({rows[i].WEEK : i \in 1..Len(rows)})
      days  == AscendingStrs({rows[i].DAY : i \in 1..Len(rows)})
  IN Flatten([w \in 1..Len(weeks) |->
       Flatten([d \in 1..Len(days) |->
         ByVisitOrder(SliceOf(rows, weeks[w], days[d]))])])

(***************************************************************************)
(* ROUTE OPTIMIZATION and MAPPING helpers, route_logic.py lines 152-238.   *)
(***************************************************************************)
\* SkipSequencing without the test of the length
SkipSequencingNoLength(df) ==
  \E i \in 1..Len(df) : df[i].Latitude = NaN \/ df[i].Longitude = NaN

\* line 154: the condition under which sequencing is skipped
SkipSequencing(df) ==
  \/ \E i \in 1..Len(df) : df[i].Latitude = NaN \/ df[i].Longitude = NaN
  \/ Len(df) < 2

\* lines 164-165: the node of each row, by position
NodesOf(df, G) ==
  [i \in 1..Len(df) |-> G.near[PlaceIndex(df[i].Latitude, df[i].Longitude)]]

\* line 165 raises for a row
NearestFails(df, G) ==
  \E i \in 1..Len(df) : PlaceIndex(df[i].Latitude, df[i].Longitude) \in G.near_fails

\* the row at which line 165 raises
FirstFailing(df, G) ==
  CHOOSE i \in 1..Len(df) :
    /\ PlaceIndex(df[i].Latitude, df[i].Longitude) \in G.near_fails
    /\ \A j \in 1..(i - 1) :
         PlaceIndex(df[j].Latitude, df[j].Longitude) \notin G.near_fails

\* nodes.index(n): the first position of n
IndexOf(nodes, n) ==
  CHOOSE i \in 1..Len(nodes) : nodes[i] = n /\ \A j \in 1..(i - 1) : nodes[j] # n

\* line 183: the row positions of the route
OrderOf(nodes, route) ==
  LET kept == SelectSeq(route, LAMBDA n : \E i \in 1..Len(nodes) : nodes[i] = n)
  IN [i \in 1..Len(kept) |-> IndexOf(nodes, kept[i])]

\* lines 184-185: df_day.iloc[order], renumbered
Reordered(df, order) == Renumber([i \in 1..Len(order) |-> df[order[i]]])

\* Nearest, were line 174 a max()
Farthest(G, current, unvisited) ==
  {n \in unvisited :
     \A m \in unvisited : G.dist[<<current, n>>] >= G.dist[<<current, m>>]}

\* line 174: the candidates min() can return, the minima of the key; which of
\* several minima it returns is decided by the iteration order of the set
Nearest(G, current, unvisited) ==
  {n \in unvisited :
     \A m \in unvisited : G.dist[<<current, n>>] <= G.dist[<<current, m>>]}

\* lines 175-179: the increment of total_length
PathIncrement(G, current, nearest) ==
  IF <<current, nearest>> \in G.nopath THEN 0 ELSE G.dist[<<current, nearest>>]

\* lines 195-203 and 215-228 of visualize_route: the metres it sums over the
\* segments of the route, a failing segment skipped
RECURSIVE SegmentsLength(_, _)
SegmentsLength(route, G) ==
  IF Len(route) < 2 THEN 0
  ELSE PathIncrement(G, route[1], route[2]) + SegmentsLength(Tail(route), G)

\* TourStart, were the tour to start at the last row of the slice
TourStartAtLast(nodes) ==
  [route |-> <<nodes[Len(nodes)]>>,
   unvisited |-> {nodes[i] : i \in 1..(Len(nodes) - 1)}]

\* lines 167-169: the route and the unvisited set before the while loop
TourStart(nodes) ==
  [route |-> <<nodes[1]>>, unvisited |-> {nodes[i] : i \in 2..Len(nodes)}]

\* lines 172-181: the while loop run to its end from a route, an unvisited
\* set and a total_length, when no query fails and min() has one candidate
\* at every pass
RECURSIVE GreedyTour(_, _, _, _)
GreedyTour(G, route, unvisited, total_length) ==
  IF unvisited = {}
  THEN [route |-> route, total_length |-> total_length]
  ELSE LET current == route[Len(route)]
           nearest == CHOOSE n \in Nearest(G, current, unvisited) : TRUE
       IN GreedyTour(G, Append(route, nearest), unvisited \ {nearest},
                     total_length + PathIncrement(G, current, nearest))

\* lines 152-187: the frame and the distance optimize_daily_route returns
\* for df_day when the oracle answers as G and no call of it fails
optimize_daily_route(df_day, G) ==
  IF SkipSequencing(df_day)
  THEN [df_day |-> Renumber(df_day), km |-> 0]
  ELSE LET nodes == NodesOf(df_day, G)
           start == TourStart(nodes)
           tour  == GreedyTour(G, start.route, start.unvisited, 0)
       IN [df_day |-> Reordered(df_day, OrderOf(nodes, tour.route)),
           km |-> tour.total_length \div 1000]

\* the total_km visualize_route returns
VisualizeKm(route, G) ==
  IF route = None THEN 0 ELSE SegmentsLength(route, G) \div 1000

\* lines 257 and 306: opt_km or map_km or 0.0
DistanceKm(opt_km, map_km) == IF opt_km # 0 THEN opt_km ELSE map_km

(***************************************************************************)
(* State.                                                                  *)
(***************************************************************************)
VARIABLES
  input,         \* df of generate_route_plan after the filter, lines 81-87
  file,          \* output/generated_route_<so_name>.xlsx: its rows, or None
  pc,            \* where the request being served stands; "idle": none
  op,            \* the entry point serving it
  idx,           \* rows of df the loop of line 98 has processed
  so_day_count,  \* line 93
  week_load,     \* line 96
  records,       \* line 94
  df_day,        \* the (week, day) slice handed to optimize_daily_route
  G,             \* line 159: the oracle of this call
  nodes,         \* line 165
  route,         \* line 168
  unvisited,     \* line 169
  total_length,  \* line 170
  oracle_calls,  \* calls of osmnx / networkx made by optimize_daily_route
  df_day_opt,    \* optimize_daily_route's returned frame
  opt_route,     \* optimize_daily_route's returned route, or None
  opt_km,        \* optimize_daily_route's returned distance
  result,        \* the dict returned to main.py
  runs           \* the frames of the generate_route_plan calls that run
                 \* side by side: each its df, its place in the loop of
                 \* line 98, its so_day_count, week_load and records

sched_vars == <<idx, so_day_count, week_load, records>>

tour_vars == <<G, nodes, route, unvisited, total_length>>

opt_vars == <<df_day_opt, opt_route, opt_km>>

vars == <<input, file, pc, op, idx, so_day_count, week_load, records, df_day,
          G, nodes, route, unvisited, total_length, oracle_calls,
          df_day_opt, opt_route, opt_km, result, runs>>

NoResult == [status |-> "none", message |-> "", distance_km |-> 0, visit_list |-> <<>>]

Error(message) ==
  [status |-> "error", message |-> message, distance_km |-> 0, visit_list |-> <<>>]

Success(km, visits) ==
  [status |-> "success", message |-> "ok", distance_km |-> km, visit_list |-> visits]

\* the locals of a request that is not running
IdleLocals ==
  /\ idx = 0
  /\ so_day_count = EmptyDayCount
  /\ week_load = EmptyWeekLoad
  /\ records = <<>>
  /\ df_day = <<>>
  /\ G = None
  /\ nodes = <<>>
  /\ route = <<>>
  /\ unvisited = {}
  /\ total_length = 0
  /\ oracle_calls = 0
  /\ df_day_opt = <<>>
  /\ opt_route = None
  /\ opt_km = 0
  /\ result = NoResult

Init ==
  /\ input \in Inputs
  /\ file = None
  /\ pc = "idle"
  /\ op = "none"
  /\ IdleLocals
  /\ runs = <<>>

(***************************************************************************)
(* process_route, lines 244-284, and generate_route_plan, lines 79-146.    *)
(***************************************************************************)
\* lines 246-248 with 81-96: the call; an empty df returns None, and
\* process_route the error
ProcessRouteCall ==
  /\ pc = "idle"
  /\ op' = "process_route"
  /\ IF input = <<>>
     THEN pc' = "done" /\ result' = Error("No records")
     ELSE pc' = "sched" /\ result' = NoResult
  /\ UNCHANGED <<runs, input, file, sched_vars, df_day, tour_vars,
                 oracle_calls, opt_vars>>

\* lines 98-142: one row of df
AssignOutlet ==
  /\ pc = "sched"
  /\ idx < Len(input)
  /\ LET st == AssignRow([so_day_count |-> so_day_count, week_load |-> week_load,
                          records |-> records], input[idx + 1])
     IN /\ so_day_count' = st.so_day_count
        /\ week_load' = st.week_load
        /\ records' = st.records
  /\ idx' = idx + 1
  /\ UNCHANGED <<runs, input, file, pc, op, df_day, tour_vars,
                 oracle_calls, opt_vars, result>>

\* SliceDay, were the workbook of line 269 written before the slice of line
\* 250 is looked at
SliceDayAfterWrite(w, d) ==
  /\ pc = "sched"
  /\ idx = Len(input)
  /\ df_day' = SliceOf(records, w, d)
  /\ file' = SortValues(records)
  /\ IF df_day' = <<>>
     THEN pc' = "done" /\ result' = Error("No data")
     ELSE pc' = "optimize" /\ result' = result
  /\ UNCHANGED <<runs, input, op, sched_vars, tour_vars, oracle_calls, opt_vars>>

\* lines 144-146 and 250-252: route_df is complete; week and day, arguments
\* of the call, are read here for the first time and, past the slice, only
\* name the map file and the messages
SliceDay(w, d) ==
  /\ pc = "sched"
  /\ idx = Len(input)
  /\ df_day' = SliceOf(records, w, d)
  /\ IF df_day' = <<>>
     THEN pc' = "done" /\ result' = Error("No data")
     ELSE pc' = "optimize" /\ result' = result
  /\ UNCHANGED <<runs, input, file, op, sched_vars, tour_vars, oracle_calls, opt_vars>>

(***************************************************************************)
(* get_day_summary, lines 290-325.                                         *)
(***************************************************************************)
\* lines 295-302
DaySummaryCall(w, d) ==
  /\ pc = "idle"
  /\ op' = "get_day_summary"
  /\ df_day' = SliceOf(file, w, d)
  /\ IF file = None
     THEN pc' = "done" /\ result' = Error("Generated Excel not found")
     ELSE IF df_day' = <<>>
     THEN pc' = "done" /\ result' = Error("No data")
     ELSE pc' = "optimize" /\ result' = NoResult
  /\ UNCHANGED <<runs, input, file, sched_vars, tour_vars, oracle_calls, opt_vars>>

(***************************************************************************)
(* optimize_daily_route, lines 152-187.                                    *)
(***************************************************************************)
\* lines 154-157
OptimizeSkip ==
  /\ pc = "optimize"
  /\ SkipSequencing(df_day)
  /\ df_day_opt' = Renumber(df_day)
  /\ opt_route' = None
  /\ opt_km' = 0
  /\ pc' = "assemble"
  /\ UNCHANGED <<runs, input, file, op, sched_vars, df_day, tour_vars,
                 oracle_calls, result>>

\* lines 159-162: ox.graph_from_point raises; the except of line 282 or 323
\* catches it
GraphFails(o) ==
  /\ pc = "optimize"
  /\ ~SkipSequencing(df_day)
  /\ ~o.graph_ok
  /\ oracle_calls' = oracle_calls + 1
  /\ pc' = "done"
  /\ result' = Error("graph_from_point failed")
  /\ UNCHANGED <<runs, input, file, op, sched_vars, df_day, tour_vars, opt_vars>>

\* line 165: ox.distance.nearest_nodes raises for a row
NearestNodeFails(o) ==
  /\ pc = "optimize"
  /\ ~SkipSequencing(df_day)
  /\ o.graph_ok
  /\ NearestFails(df_day, o)
  /\ oracle_calls' = oracle_calls + 1 + FirstFailing(df_day, o)
  /\ pc' = "done"
  /\ result' = Error("nearest_nodes failed")
  /\ UNCHANGED <<runs, input, file, op, sched_vars, df_day, tour_vars, opt_vars>>

\* lines 159-170
Resolve(o) ==
  /\ pc = "optimize"
  /\ ~SkipSequencing(df_day)
  /\ o.graph_ok
  /\ ~NearestFails(df_day, o)
  /\ G' = o
  /\ nodes' = NodesOf(df_day, o)
  /\ route' = TourStart(nodes').route
  /\ unvisited' = TourStart(nodes').unvisited
  /\ total_length' = 0
  /\ oracle_calls' = oracle_calls + 1 + Len(df_day)
  /\ pc' = "tour"
  /\ UNCHANGED <<runs, input, file, op, sched_vars, df_day, opt_vars, result>>

\* line 174: a key of min() raises NetworkXNoPath, outside the try of line 175
TourAbort ==
  /\ pc = "tour"
  /\ unvisited # {}
  /\ \E n \in unvisited : <<route[Len(route)], n>> \in G.nopath
  /\ oracle_calls' = oracle_calls + 1
  /\ pc' = "done"
  /\ result' = Error("NetworkXNoPath")
  /\ UNCHANGED <<runs, input, file, op, sched_vars, df_day, tour_vars, opt_vars>>

\* lines 172-181: one pass of the while loop
TourStep ==
  /\ pc = "tour"
  /\ unvisited # {}
  /\ LET current == route[Len(route)]
     IN /\ \A n \in unvisited : <<current, n>> \notin G.nopath
        /\ \E nearest \in Nearest(G, current, unvisited) :
             /\ total_length' = total_length + PathIncrement(G, current, nearest)
             /\ unvisited' = unvisited \ {nearest}
             /\ route' = Append(route, nearest)
  /\ oracle_calls' = oracle_calls + Cardinality(unvisited) + 1
  /\ UNCHANGED <<runs, input, file, pc, op, sched_vars, df_day, G, nodes,
                 opt_vars, result>>

\* lines 183-187
TourDone ==
  /\ pc = "tour"
  /\ unvisited = {}
  /\ df_day_opt' = Reordered(df_day, OrderOf(nodes, route))
  /\ opt_route' = route
  /\ opt_km' = total_length \div 1000
  /\ pc' = "assemble"
  /\ UNCHANGED <<runs, input, file, op, sched_vars, df_day, tour_vars,
                 oracle_calls, result>>

(***************************************************************************)
(* The rest of the two entry points.                                       *)
(***************************************************************************)
\* process_route, lines 255-280
ProcessRouteFinish ==
  /\ pc = "assemble"
  /\ op = "process_route"
  /\ file' = SortValues(records)
  /\ result' = Success(DistanceKm(opt_km, VisualizeKm(opt_route, G)), <<>>)
  /\ pc' = "done"
  /\ UNCHANGED <<runs, input, op, sched_vars, df_day, tour_vars,
                 oracle_calls, opt_vars>>

\* get_day_summary, lines 305-321
DaySummaryFinish ==
  /\ pc = "assemble"
  /\ op = "get_day_summary"
  /\ result' = Success(DistanceKm(opt_km, VisualizeKm(opt_route, G)),
                       ByVisitOrder(df_day_opt))
  /\ pc' = "done"
  /\ UNCHANGED <<runs, input, file, op, sched_vars, df_day, tour_vars,
                 oracle_calls, opt_vars>>

\* the dict is returned to main.py and the locals of the call are gone
Return ==
  /\ pc = "done"
  /\ pc' = "idle"
  /\ op' = "none"
  /\ idx' = 0
  /\ so_day_count' = EmptyDayCount
  /\ week_load' = EmptyWeekLoad
  /\ records' = <<>>
  /\ df_day' = <<>>
  /\ G' = None
  /\ nodes' = <<>>
  /\ route' = <<>>
  /\ unvisited' = {}
  /\ total_length' = 0
  /\ oracle_calls' = 0
  /\ df_day_opt' = <<>>
  /\ opt_route' = None
  /\ opt_km' = 0
  /\ result' = NoResult
  /\ UNCHANGED <<runs, input, file>>

Next ==
  \/ ProcessRouteCall
  \/ AssignOutlet
  \/ \E w \in WeekSet, d \in DaySet : SliceDay(w, d)
  \/ \E w \in WeekSet, d \in DaySet : DaySummaryCall(w, d)
  \/ OptimizeSkip
  \/ \E o \in Oracles : GraphFails(o)
  \/ \E o \in Oracles : NearestNodeFails(o)
  \/ \E o \in Oracles : Resolve(o)
  \/ TourAbort
  \/ TourStep
  \/ TourDone
  \/ ProcessRouteFinish
  \/ DaySummaryFinish
  \/ Return

Spec == Init /\ [][Next]_vars

(***************************************************************************)
(* generate_route_plan calls that run side by side, one row of one call at *)
(* a time: the server threads or processes of a deployment that serves     *)
(* requests in parallel.  so_day_count, week_load and records are locals   *)
(* of the call (lines 93-96), so every call has its own.                   *)
(***************************************************************************)
\* lines 81-96: the frame of a call on df, before the loop of line 98
Frame(df) ==
  [df |-> df, idx |-> 0, so_day_count |-> EmptyDayCount,
   week_load |-> EmptyWeekLoad, records |-> <<>>]

\* the frames after call r has processed a row, were so_day_count and
\* week_load module-level objects that the calls share (kept in frame 1)
AssignOutletShared(frames, r) ==
  LET st == AssignRow([so_day_count |-> frames[1].so_day_count,
                       week_load |-> frames[1].week_load,
                       records |-> frames[r].records],
                      frames[r].df[frames[r].idx + 1])
  IN [frames EXCEPT ![r].idx = @ + 1,
                    ![r].records = st.records,
                    ![1].so_day_count = st.so_day_count,
                    ![1].week_load = st.week_load]

\* lines 98-142: the frames after call r has processed one row of its df
AssignOutletOf(frames, r) ==
  LET st == AssignRow([so_day_count |-> frames[r].so_day_count,
                       week_load |-> frames[r].week_load,
                       records |-> frames[r].records],
                      frames[r].df[frames[r].idx + 1])
  IN [frames EXCEPT ![r].idx = @ + 1,
                    ![r].records = st.records,
                    ![r].so_day_count = st.so_day_count,
                    ![r].week_load = st.week_load]

InitRuns ==
  /\ runs \in [1..MaxRuns -> {Frame(df) : df \in RunInputs}]
  /\ input = <<>>
  /\ file = None
  /\ pc = "idle"
  /\ op = "none"
  /\ IdleLocals

\* lines 98-142 in call r
RunAssignOutlet(r) ==
  /\ runs[r].idx < Len(runs[r].df)
  /\ runs' = AssignOutletOf(runs, r)
  /\ UNCHANGED <<input, file, pc, op, sched_vars, df_day, tour_vars,
                 oracle_calls, opt_vars, result>>

NextRuns == \E r \in 1..MaxRuns : RunAssignOutlet(r)

SpecRuns == InitRuns /\ [][NextRuns]_vars

(***************************************************************************)
(* Properties of the scheduler.                                            *)
(***************************************************************************)
\* the scheduler has just processed a row
Assigned == pc = "sched" /\ idx' = idx + 1

\* the rows the step has appended to records
NewRows == {records'[j] : j \in (Len(records) + 1)..Len(records')}

\* the number of rows of week w
RowsOfWeek(rows, w) == Cardinality({j \in 1..Len(rows) : rows[j].WEEK = w})

\* the rows of outlet id
RowsOfOutlet(rows, id) == SelectSeq(rows, LAMBDA r : r.Outlet_Erp_Id = id)

\* every day of week w holds at least PER_DAY_CAPACITY visits
AllDaysFull(w) == \A d \in DaySet : so_day_count[<<w, d>>] >= PER_DAY_CAPACITY

\* d is a least-loaded day of week w
LeastLoaded(w, d) == \A e \in DaySet : so_day_count[<<w, d>>] <= so_day_count[<<w, e>>]

\* d comes before e in DAYS
DayBefore(d, e) ==
  \E i, j \in 1..Len(DAYS) : i < j /\ DAYS[i] = d /\ DAYS[j] = e

\* d is the first day of week w, MON to SAT, below capacity
FirstBelowCapacity(w, d) ==
  /\ so_day_count[<<w, d>>] < PER_DAY_CAPACITY
  /\ \A e \in DaySet : DayBefore(e, d) => so_day_count[<<w, e>>] >= PER_DAY_CAPACITY

\* the preferred day p is a non-blank string
Usable(p) == p # NaN /\ \E i \in 1..Len(p) : p[i] # " "

\* C1: after any prefix of any input, in every (week, day) bucket the
\* VISIT_ORDER values of the rows emitted so far are exactly 1..n, n the
\* number of rows of the bucket: no gap and no duplicate.
C1_VisitOrderContiguous ==
  pc = "sched" =>
    \A w \in WeekSet, d \in DaySet :
      LET b == SliceOf(records, w, d)
      IN {b[i].VISIT_ORDER : i \in 1..Len(b)} = 1..Len(b)

\* C1 witness: a prefix after which a bucket holds more rows than the capacity
C1_Witness ==
  /\ pc = "sched"
  /\ \E w \in WeekSet, d \in DaySet : Len(SliceOf(records, w, d)) > PER_DAY_CAPACITY

\* C2: an assignment raises a bucket above PER_DAY_CAPACITY only if all six
\* days of the week held at least PER_DAY_CAPACITY visits at that moment;
\* otherwise a day chosen at capacity is replaced by the first day, MON to
\* SAT, below capacity.  (An outlet has at most one row per week, so the
\* counters of a row's week before the step are those at its assignment.)
C2_OverCapacityOnlyWhenFull ==
  [][Assigned =>
       \A r \in NewRows :
         LET w == r.WEEK
             chosen == ChooseDay(input[idx'].Preferred_DAY, w, so_day_count)
         IN /\ so_day_count'[<<w, r.DAY>>] = so_day_count[<<w, r.DAY>>] + 1
            /\ so_day_count'[<<w, r.DAY>>] > PER_DAY_CAPACITY => AllDaysFull(w)
            /\ IF so_day_count[<<w, chosen>>] >= PER_DAY_CAPACITY /\ ~AllDaysFull(w)
               THEN FirstBelowCapacity(w, r.DAY)
               ELSE r.DAY = chosen]_vars

\* C2 witness: a bucket has passed the capacity, and an outlet with the valid
\* preferred day MON has a row on another day of that week
C2_Witness ==
  /\ pc = "sched"
  /\ \E w \in WeekSet, d \in DaySet :
       /\ so_day_count[<<w, d>>] > PER_DAY_CAPACITY
       /\ \E j \in 1..Len(records) :
            /\ records[j].WEEK = w
            /\ input[records[j].Outlet_Erp_Id].Preferred_DAY = MON
            /\ records[j].DAY # MON

\* the weeks of the rows of outlet id are those its frequency asks for
WeeksAsPicked(id) ==
  LET f  == parse_freq(input[id].Frequency)
      rs == RowsOfOutlet(records, id)
      ws == {rs[j].WEEK : j \in 1..Len(rs)}
  IN /\ f = 2 => ws = {1, 3}
     /\ f = 3 => ws = {1, 2, 4}
     /\ f >= 4 => ws = {1, 2, 3, 4}

\* C3: the weeks of the rows of an outlet of frequency 2 are exactly {1,3},
\* of frequency 3 {1,2,4}, of frequency >= 4 {1,2,3,4}, whatever the load
\* and the other outlets: of the outlet just processed after every prefix,
\* of every outlet once the input is exhausted.
C3_WeeksOfFrequency ==
  pc = "sched" =>
    \A id \in (IF idx = Len(input) THEN 1..idx ELSE {idx} \ {0}) : WeeksAsPicked(id)

\* C3 witness: an exhausted input with outlets of frequency 2, 3 and >= 4
C3_Witness ==
  /\ pc = "sched"
  /\ idx = Len(input)
  /\ \E i, j, k \in 1..idx :
       /\ parse_freq(input[i].Frequency) = 2
       /\ parse_freq(input[j].Frequency) = 3
       /\ parse_freq(input[k].Frequency) >= 4

\* C4: an outlet of frequency 1 gets exactly one row, in a week whose number
\* of rows emitted so far (of outlets of every frequency) is minimal among
\* the weeks, the lowest such week.
C4_FrequencyOneLeastLoadedWeek ==
  [][(Assigned /\ parse_freq(input[idx'].Frequency) = 1) =>
       /\ Len(records') = Len(records) + 1
       /\ SubSeq(records', 1, Len(records)) = records
       /\ LET r == records'[Len(records')]
          IN /\ r.Outlet_Erp_Id = input[idx'].Outlet_Erp_Id
             /\ \A w \in WeekSet :
                  /\ RowsOfWeek(records, r.WEEK) <= RowsOfWeek(records, w)
                  /\ w < r.WEEK => RowsOfWeek(records, r.WEEK) < RowsOfWeek(records, w)]_vars

\* C4 witness: an outlet of frequency 1 placed behind outlets of other
\* frequencies, in a week other than the first
C4_Witness ==
  /\ pc = "sched"
  /\ idx >= 2
  /\ parse_freq(input[idx].Frequency) = 1
  /\ parse_freq(input[1].Frequency) = 3
  /\ records[Len(records)].Outlet_Erp_Id = idx
  /\ records[Len(records)].WEEK = 3

\* C5 as claimed: in the overflow case the outlet lands on a least-loaded day
\* of the week, also when it carries a valid preferred day.
C5_OverflowLeastLoaded ==
  [][Assigned =>
       \A r \in NewRows : AllDaysFull(r.WEEK) => LeastLoaded(r.WEEK, r.DAY)]_vars

\* C5 as amended: in the overflow case the outlet stays on the day chosen
\* before the capacity check: the preferred day when it is a weekday code,
\* DAYS[(week-1) mod 6] when it is another non-blank string, whatever their
\* load, and the first least-loaded day, MON to SAT, when there is none.
C5_OverflowKeepsChosenDay ==
  [][Assigned =>
       \A r \in NewRows :
         AllDaysFull(r.WEEK) =>
           LET p == input[idx'].Preferred_DAY
           IN IF Usable(p)
              THEN LET code == Upper(Prefix(Strip(p), 3))
                   IN r.DAY = IF code \in DaySet THEN code
                              ELSE DAYS[((r.WEEK - 1) % Len(DAYS)) + 1]
              ELSE /\ LeastLoaded(r.WEEK, r.DAY)
                   /\ \A e \in DaySet :
                        DayBefore(e, r.DAY) =>
                          so_day_count[<<r.WEEK, e>>] > so_day_count[<<r.WEEK, r.DAY>>]]_vars

\* C5 witness: an outlet with a preferred day has been assigned in the
\* overflow case to a day that was already above every other day
C5_Witness ==
  /\ pc = "sched"
  /\ idx >= 1
  /\ Usable(input[idx].Preferred_DAY)
  /\ \E w \in WeekSet, d \in DaySet :
       /\ records[Len(records)].DAY = d
       /\ so_day_count[<<w, d>>] > PER_DAY_CAPACITY + 1
       /\ \A e \in DaySet \ {d} : so_day_count[<<w, e>>] = PER_DAY_CAPACITY

\* the scheduler has processed j rows of the input of PER_DAY_CAPACITY + 1
\* outlets of frequency 1 without a preferred day
OverCapacityRun == input = OverCapacityInput /\ pc = "sched"

\* C6 as claimed: of PER_DAY_CAPACITY + 1 outlets of frequency 1 without a
\* preferred day, exactly PER_DAY_CAPACITY land on one day of week 1 and the
\* last is redirected to the next day below capacity.
C6_FillsOneDayFirst ==
  (OverCapacityRun /\ idx = Len(input)) =>
    \E d, e \in DaySet :
      /\ d # e
      /\ Len(SliceOf(records, 1, d)) = PER_DAY_CAPACITY
      /\ records[Len(records)].WEEK = 1
      /\ records[Len(records)].DAY = e

\* C6 as amended: the outlets are dealt round-robin: the i-th lands in week
\* ((i-1) mod 4) + 1 on day DAYS[((i-1) div 4) mod 6], with VISIT_ORDER
\* ((i-1) div 24) + 1; no bucket holds more than 2 visits and no outlet is
\* redirected.
C6_RoundRobin ==
  OverCapacityRun =>
    /\ Len(records) = idx
    /\ \A i \in 1..Len(records) :
         /\ records[i].Outlet_Erp_Id = i
         /\ records[i].WEEK = WEEKS[((i - 1) % Len(WEEKS)) + 1]
         /\ records[i].DAY = DAYS[(((i - 1) \div Len(WEEKS)) % Len(DAYS)) + 1]
         /\ records[i].VISIT_ORDER = ((i - 1) \div (Len(WEEKS) * Len(DAYS))) + 1
    /\ \A w \in WeekSet, d \in DaySet : so_day_count[<<w, d>>] <= 2

\* C6 witness: the input of PER_DAY_CAPACITY + 1 such outlets is exhausted
C6_Witness == OverCapacityRun /\ idx = Len(input) /\ Len(records) = PER_DAY_CAPACITY + 1

(***************************************************************************)
(* Properties of the tour sequencer and of the entry points.               *)
(***************************************************************************)
\* every row of df has both coordinates
AllHaveCoordinates(df) ==
  \A i \in 1..Len(df) : df[i].Latitude # NaN /\ df[i].Longitude # NaN

\* the rows of df in their order, VISIT_ORDER set to the position
InInputOrder(df) == [i \in 1..Len(df) |-> [df[i] EXCEPT !.VISIT_ORDER = i]]

\* the tour is under construction or was, and the path-distance query from
\* the last node of the route to a node still unvisited fails
PathQueryFails ==
  /\ nodes # <<>>
  /\ \E n \in unvisited : <<route[Len(route)], n>> \in G.nopath

\* C7 as claimed: a failing path-distance query does not abort the tour
\* construction; the call goes on to return a distance and every outlet.
C7_PathFailureAbsorbed == PathQueryFails => result.status # "error"

\* C8 as claimed: optimize_daily_route returns exactly the k input rows, each
\* once, with VISIT_ORDER 1..k, also when outlets share a node.
C8_OutputIsPermutation ==
  pc = "assemble" =>
    /\ Len(df_day_opt) = Len(df_day)
    /\ \A j \in 1..Len(df_day_opt) : df_day_opt[j].VISIT_ORDER = j
    /\ \A i \in 1..Len(df_day) :
         Cardinality({j \in 1..Len(df_day_opt) :
                        df_day_opt[j] = [df_day[i] EXCEPT !.VISIT_ORDER = j]}) = 1

\* C9: given fewer than 2 outlets, or an outlet with a missing latitude or
\* longitude, optimize_daily_route makes no oracle call, does not fail, and
\* returns the rows in input order with VISIT_ORDER = position, no route and
\* distance 0.
C9_SkipSequencing ==
  (df_day # <<>> /\ (Len(df_day) < 2 \/ ~AllHaveCoordinates(df_day))) =>
    /\ pc \in {"optimize", "assemble", "done"}
    /\ oracle_calls = 0
    /\ result.status # "error"
    /\ pc \in {"assemble", "done"} =>
         /\ df_day_opt = InInputOrder(df_day)
         /\ opt_route = None
         /\ opt_km = 0

\* C9 witness: optimize_daily_route has returned for a slice of three outlets
\* of which the second lacks a coordinate
C9_Witness ==
  /\ pc = "assemble"
  /\ Len(df_day) = 3
  /\ ~AllHaveCoordinates(SubSeq(df_day, 2, 2))
  /\ AllHaveCoordinates(SubSeq(df_day, 1, 1))

\* the oracle was called and resolved no node list: ox.graph_from_point or
\* ox.distance.nearest_nodes failed
ResolveFailed == oracle_calls > 0 /\ nodes = <<>>

\* C10 as claimed: when the oracle fails to resolve a location for a
\* non-empty slice whose outlets all have coordinates, the entry point still
\* completes with status "success" and the skip-sequencing result.
C10_ResolveFailureAbsorbed ==
  (pc = "done" /\ df_day # <<>> /\ AllHaveCoordinates(df_day) /\ ResolveFailed) =>
    /\ result.status = "success"
    /\ result.distance_km = 0

(***************************************************************************)
(* Properties of process_route and of the persisted plan.                  *)
(***************************************************************************)
\* the step ends process_route on an empty filtered input or on an empty
\* (week, day) slice
EndsOnEmpty ==
  /\ op' = "process_route"
  /\ pc # "done"
  /\ pc' = "done"
  /\ input = <<>> \/ (pc = "sched" /\ df_day' = <<>>)

\* C11: when the filtered input is empty or the requested (week, day) slice
\* is empty, process_route returns status "error" with a message and the
\* persisted plan is untouched: the file changes only in the step that ends
\* a process_route call whose input and slice are both non-empty.
C11_EmptyLeavesPlan ==
  [][/\ EndsOnEmpty =>
          /\ result'.status = "error"
          /\ result'.message # ""
          /\ file' = file
     /\ file' # file =>
          /\ op = "process_route"
          /\ input # <<>>
          /\ df_day # <<>>
          /\ result'.status = "success"]_vars

\* C11 witness: a plan was written by an earlier call, and a later
\* process_route call has ended on an empty slice
C11_Witness ==
  /\ pc = "done"
  /\ op = "process_route"
  /\ input # <<>>
  /\ df_day = <<>>
  /\ result.status = "error"
  /\ file # None

\* process_route has written the plan and is about to return
PlanWritten == pc = "done" /\ op = "process_route" /\ result.status = "success"

\* the outlets of the slice resolved to pairwise distinct nodes
DistinctNodes == Cardinality({nodes[i] : i \in 1..Len(nodes)}) = Len(nodes)

\* C12 as claimed: the plan process_route writes is built from the rows
\* optimize_daily_route returned: the requested (week, day) slice of the
\* written plan has the outlet order and the VISIT_ORDER values of the
\* sequencer's output (here already for slices whose outlets resolve to
\* pairwise distinct nodes, where the sequencer returns every outlet once).
C12_PlanFromSequencedRows ==
  (PlanWritten /\ DistinctNodes) =>
    SliceOf(file, df_day[1].WEEK, df_day[1].DAY) = df_day_opt

(***************************************************************************)
(* Properties of calls that run side by side.                              *)
(***************************************************************************)
\* C13: generate_route_plan calls whose per-outlet steps are interleaved in
\* any order each hold, after every step, exactly the rows and the counters
\* of a call that processed the same rows alone: no call reads or writes
\* the week loads or the bucket counters of another.
C13_RunsIndependent ==
  \A r \in DOMAIN runs :
    LET alone == generate_route_plan(runs[r].df, runs[r].idx)
    IN /\ runs[r].records = alone.records
       /\ runs[r].so_day_count = alone.so_day_count
       /\ runs[r].week_load = alone.week_load

\* C13 witness: two calls on the same input, one exhausted and one halfway,
\* have both placed an outlet of frequency 1 in week 1
C13_Witness ==
  /\ runs # <<>>
  /\ runs[1].df = runs[2].df
  /\ runs[1].idx = 1
  /\ runs[2].idx = Len(runs[2].df)
  /\ parse_freq(runs[1].df[1].Frequency) = 1
  /\ runs[1].records[1].WEEK = 1
  /\ runs[2].records[1].WEEK = 1

(***************************************************************************)
(* Properties of the frequencies and of the rows per outlet.               *)
(***************************************************************************)
\* C14 as claimed: the frequency the scheduler derives from the Frequency
\* cell of the outlet it has just processed is an integer >= 1, whatever the
\* cell holds: nothing, a string without a digit, or a string with digits,
\* "0" included.
C14_FrequencyPositive ==
  (pc = "sched" /\ idx >= 1) => parse_freq(input[idx].Frequency) >= 1

\* the rows an input owes its first n outlets: min(f, 4) each
RECURSIVE RowsDue(_, _)
RowsDue(df, n) ==
  IF n = 0 THEN 0
  ELSE LET f == parse_freq(df[n].Frequency)
       IN RowsDue(df, n - 1) + (IF f < 4 THEN f ELSE 4)

\* C15: on an input whose outlets all have a frequency f >= 1, the step that
\* processes an outlet keeps every earlier row and appends exactly min(f, 4)
\* rows of that outlet, in pairwise distinct weeks, also when every day of
\* the week is full; the rows emitted so far number the sum of min(f, 4)
\* over the outlets processed.
C15_RowsPerOutlet ==
  [][(Assigned /\ \A i \in 1..Len(input) : parse_freq(input[i].Frequency) >= 1) =>
       LET f == parse_freq(input[idx'].Frequency)
           m == IF f < 4 THEN f ELSE 4
       IN /\ SubSeq(records', 1, Len(records)) = records
          /\ Len(records') = Len(records) + m
          /\ \A r \in NewRows : r.Outlet_Erp_Id = input[idx'].Outlet_Erp_Id
          /\ Cardinality({r.WEEK : r \in NewRows}) = m
          /\ Len(records') = RowsDue(input, idx')]_vars

\* C15 witness: three outlets of frequencies 1, 2 and 3 have got 6 rows
C15_Witness ==
  /\ pc = "sched"
  /\ idx = 3
  /\ idx = Len(input)
  /\ parse_freq(input[1].Frequency) = 1
  /\ parse_freq(input[2].Frequency) = 2
  /\ parse_freq(input[3].Frequency) = 3
  /\ Len(records) = 6

\* row a comes before row b by (WEEK, DAY, VISIT_ORDER), the days compared
\* in the order of DAYS
BeforeInWeekdayOrder(a, b) ==
  \/ a.WEEK < b.WEEK
  \/ a.WEEK = b.WEEK /\ DayBefore(a.DAY, b.DAY)
  \/ a.WEEK = b.WEEK /\ a.DAY = b.DAY /\ a.VISIT_ORDER < b.VISIT_ORDER

\* C16 as claimed: the plan process_route writes is sorted ascending by
\* (week, day, visit_order), the days compared in the weekday order MON,
\* TUE, WED, THU, FRI, SAT: of two consecutive rows the earlier has a smaller
\* week, or the same week and an earlier weekday, or the same week and day
\* and a smaller visit_order.
C16_PlanInWeekdayOrder ==
  PlanWritten =>
    \A j \in 1..(Len(file) - 1) : BeforeInWeekdayOrder(file[j], file[j + 1])

(***************************************************************************)
(* Properties of the tour.                                                 *)
(***************************************************************************)
\* optimize_daily_route has returned a tour of a slice of at least 2
\* outlets that all have coordinates and resolved to pairwise distinct
\* nodes between which every path exists
TourReturned ==
  /\ pc = "assemble"
  /\ Len(df_day) >= 2
  /\ AllHaveCoordinates(df_day)
  /\ nodes # <<>>
  /\ DistinctNodes
  /\ \A i, j \in 1..Len(nodes) : <<nodes[i], nodes[j]>> \notin G.nopath

\* the node of the j-th row of the returned frame: that of its outlet
NodeOfRow(j) ==
  nodes[CHOOSE i \in 1..Len(df_day) :
          df_day[i].Outlet_Erp_Id = df_day_opt[j].Outlet_Erp_Id]

\* the metres from the first to the j-th row of the returned frame
RECURSIVE MetresTo(_)
MetresTo(j) ==
  IF j <= 1 THEN 0
  ELSE MetresTo(j - 1) + G.dist[<<NodeOfRow(j - 1), NodeOfRow(j)>>]

\* C17: for k >= 2 outlets with coordinates, pairwise distinct nodes and all
\* paths, optimize_daily_route returns the greedy nearest-neighbour tour:
\* the k outlets each once, the first input outlet first, every later row
\* at minimum path distance from the row before it among the rows not yet
\* placed, the loop ended after k - 1 steps, and as distance the sum of the
\* k - 1 step distances in metres divided by 1000.
C17_GreedyNearestNeighbour ==
  TourReturned =>
    LET k == Len(df_day)
    IN /\ Len(df_day_opt) = k
       /\ {df_day_opt[j].Outlet_Erp_Id : j \in 1..k} =
            {df_day[i].Outlet_Erp_Id : i \in 1..k}
       /\ df_day_opt[1].Outlet_Erp_Id = df_day[1].Outlet_Erp_Id
       /\ \A j \in 1..k : df_day_opt[j].VISIT_ORDER = j
       /\ \A j \in 2..k : \A m \in j..k :
            G.dist[<<NodeOfRow(j - 1), NodeOfRow(j)>>] <=
              G.dist[<<NodeOfRow(j - 1), NodeOfRow(m)>>]
       /\ Len(route) = k
       /\ unvisited = {}
       /\ total_length = MetresTo(k)
       /\ opt_km = MetresTo(k) \div 1000

\* C17 witness: a tour of three outlets that leaves the input order
C17_Witness ==
  /\ TourReturned
  /\ Len(df_day) = 3
  /\ df_day_opt[2].Outlet_Erp_Id = df_day[3].Outlet_Erp_Id
  /\ opt_km > 0

(***************************************************************************)
(* Properties of the choice of the day.                                    *)
(***************************************************************************)
\* the day a preferred-day string p asks for in week w: its weekday code, or
\* DAYS[(w-1) mod 6] when it has none
AskedDay(p, w) ==
  LET code == Upper(Prefix(Strip(p), 3))
  IN IF code \in DaySet THEN code ELSE DAYS[((w - 1) % Len(DAYS)) + 1]

\* d is the first least-loaded day of week w, MON to SAT
FirstLeastLoaded(w, d) ==
  /\ LeastLoaded(w, d)
  /\ \A e \in DaySet : DayBefore(e, d) => so_day_count[<<w, e>>] > so_day_count[<<w, d>>]

\* C18 as claimed: in every assigned week w an outlet whose preferred day is
\* a non-empty string lands on the day it asks for (its weekday code after
\* trimming, cutting to three letters and upper-casing, else
\* DAYS[(w-1) mod 6]) whenever that day's bucket holds fewer than
\* PER_DAY_CAPACITY visits, whatever the other days hold (here already for
\* outlets of frequency >= 1).
C18_NonEmptyPreferredDay ==
  [][Assigned =>
       \A r \in NewRows :
         LET p == input[idx'].Preferred_DAY
         IN (p # NaN /\ Len(p) > 0
             /\ parse_freq(input[idx'].Frequency) >= 1
             /\ so_day_count[<<r.WEEK, AskedDay(p, r.WEEK)>>] < PER_DAY_CAPACITY) =>
              r.DAY = AskedDay(p, r.WEEK)]_vars

\* C18 as amended: the rule holds for a preferred day that is not blank; a
\* preferred day of blanks only counts as none, and the outlet lands on the
\* first least-loaded day of the week when that day is below capacity.
C18_NonBlankPreferredDay ==
  [][Assigned =>
       \A r \in NewRows :
         LET p == input[idx'].Preferred_DAY
         IN /\ (Usable(p)
                /\ so_day_count[<<r.WEEK, AskedDay(p, r.WEEK)>>] < PER_DAY_CAPACITY) =>
                 r.DAY = AskedDay(p, r.WEEK)
            /\ (p # NaN /\ ~Usable(p)
                /\ so_day_count[<<r.WEEK, r.DAY>>] < PER_DAY_CAPACITY) =>
                 FirstLeastLoaded(r.WEEK, r.DAY)]_vars

\* C18 witness: after outlets that loaded other days, an outlet with an
\* unknown preferred day has its rows on DAYS[(w-1) mod 6] in weeks 1, 2, 4,
\* and an outlet with preferred day " mon" is on MON
C18_Witness ==
  /\ pc = "sched"
  /\ idx = 3
  /\ input[1].Preferred_DAY = <<" ", " ">>
  /\ input[2].Preferred_DAY = <<" ", "m", "o", "n">>
  /\ input[3].Preferred_DAY = <<"X", "Y", "Z">>
  /\ \E j \in 1..Len(records) :
       records[j].Outlet_Erp_Id = 2 /\ records[j].DAY = MON /\ records[j].VISIT_ORDER = 2
  /\ \E j \in 1..Len(records) :
       records[j].Outlet_Erp_Id = 3 /\ records[j].WEEK = 2 /\ records[j].DAY = TUE
  /\ \E j \in 1..Len(records) :
       records[j].Outlet_Erp_Id = 3 /\ records[j].WEEK = 4 /\ records[j].DAY = THU

\* no outlet of the input carries a preferred day
NoPreferredDay == \A i \in 1..Len(input) : ~Usable(input[i].Preferred_DAY)

\* C19: in a run whose outlets carry no preferred day, after every
\* assignment the six day counts of every week differ by at most 1; the
\* redirect scan leaves the chosen day, the first least-loaded one, as it
\* is; and a bucket passes PER_DAY_CAPACITY only when all six days of the
\* week had reached it.
C19_BalancedWithoutPreference ==
  [][(Assigned /\ NoPreferredDay) =>
       /\ \A w \in WeekSet : \A d, e \in DaySet :
            so_day_count'[<<w, d>>] - so_day_count'[<<w, e>>] <= 1
       /\ \A r \in NewRows :
            /\ r.DAY = ChooseDay(input[idx'].Preferred_DAY, r.WEEK, so_day_count)
            /\ FirstLeastLoaded(r.WEEK, r.DAY)
            /\ so_day_count'[<<r.WEEK, r.DAY>>] > PER_DAY_CAPACITY =>
                 AllDaysFull(r.WEEK)]_vars

\* C19 witness: a run without preferred days in which a bucket has passed
\* PER_DAY_CAPACITY while another day of the week holds exactly that
C19_Witness ==
  /\ pc = "sched"
  /\ NoPreferredDay
  /\ \E w \in WeekSet, d, e \in DaySet :
       /\ so_day_count[<<w, d>>] = PER_DAY_CAPACITY + 1
       /\ so_day_count[<<w, e>>] = PER_DAY_CAPACITY

\* the oracle reports pairwise distinct distances between the nodes of the
\* slice
DistinctDistances ==
  \A a, b, c, d \in {nodes[i] : i \in 1..Len(nodes)} :
    (a # b /\ c # d /\ <<a, b>> # <<c, d>>) => G.dist[<<a, b>>] # G.dist[<<c, d>>]

\* C20: optimize_daily_route is idempotent on its own output: for a slice
\* whose outlets resolve to pairwise distinct nodes with pairwise distinct
\* path distances and no failing oracle call, running it again on the rows
\* it returned, as get_day_summary does with a sequenced slice, returns the
\* same rows in the same order with the same VISIT_ORDER and the same
\* distance.
C20_SequencerIdempotent ==
  (TourReturned /\ DistinctDistances) =>
    LET first == optimize_daily_route(df_day, G)
        again == optimize_daily_route(first.df_day, G)
    IN /\ first.df_day = df_day_opt
       /\ first.km = opt_km
       /\ again.df_day = df_day_opt
       /\ again.km = opt_km

\* C20 witness: the sequencer has returned three outlets in another order
\* than it got them, for a distance that is not 0
C20_Witness ==
  /\ TourReturned
  /\ DistinctDistances
  /\ Len(df_day) = 3
  /\ df_day_opt[3].Outlet_Erp_Id = df_day[2].Outlet_Erp_Id
  /\ opt_km > 0
====
